---- MODULE Spec2Model ----
\* Model of build_docs.py: the command runner, the repository manager, the two
\* file filters, the doc builder and the click front end, as one sequential
\* state machine over an abstract file system.
EXTENDS Integers, Sequences, FiniteSets, TLC

\* ---------------------------------------------------------------- bounds
MaxTree == 3          \* most entries in a cloned doc tree
MaxRc   == 2          \* child exit statuses range over 0..MaxRc

\* ---------------------------------------------------------------- paths
WEB_REPO == "~/repos/cogent3org"
SRC_REPO == "~/repos/Cogent3"
WEB_DIR == <<"c","3","o","r","g">>
SRC_DIR == <<"c","3","s","r","c">>
Sep == <<"/">>
DocRoot == WEB_DIR \o Sep \o <<"d","o","c">> \o Sep \o <<"d","o","c">>
DrawRoot == DocRoot \o Sep \o <<"d","r","a","w","_","e","x","a","m","p","l","e","s">>

\* the process's working directories, as os.getcwd() would name them
OrigDir   == "."
WebCloneDir == "c3org"
WebCloneDocDir == "c3org/doc"

\* names of entries that a clone of the source repository may hold under doc/
N_index == <<"a","_","i","n","d","e","x",".","r","s","t">>
N_tut == <<"t","u","t",".","r","s","t">>
N_adv == <<"a","d","v",".","r","s","t">>
N_tmpl == <<"t","e","m","p","l","a","t","e","_","x",".","r","s","t">>
N_notes == <<"n","o","t","e","s",".","t","x","t">>
N_api == <<"a","p","i",".","r","s","t">>
N_draw == <<"d","r","a","w","_","e","x","a","m","p","l","e","s">>
N_scpy == N_draw \o Sep \o <<"s","c","a","t","t","e","r",".","p","y">>
N_sq == N_draw \o Sep \o <<"a","-","s","q","u","a","r","e",".","p","y">>
N_scrst == N_draw \o Sep \o <<"s","c","a","t","t","e","r",".","r","s","t">>

\* an entry as pathlib yields it: its path string and whether is_dir() holds
Entry(name, isdir) == [path |-> DocRoot \o Sep \o name, dir |-> isdir]
DrawDir == Entry(N_draw, TRUE)
Universe ==
  { Entry(N_index, FALSE), Entry(N_tut, FALSE), Entry(N_adv, FALSE),
    Entry(N_tmpl, FALSE), Entry(N_notes, FALSE), Entry(N_api, TRUE),
    DrawDir, Entry(N_scpy, FALSE), Entry(N_sq, FALSE), Entry(N_scrst, FALSE) }

\* caller patterns given with -p
PatTut == <<"*","t","u","t","*">>
PatQ == <<"*","d","?",".","r","s","t">>
CallerPatterns == { <<>>, PatTut, PatQ }

\* ---------------------------------------------------------------- strings
RECURSIVE startswith(_, _)
startswith(s, prefix) ==
  IF prefix = <<>> THEN TRUE
  ELSE IF s = <<>> THEN FALSE
  ELSE Head(s) = Head(prefix) /\ startswith(Tail(s), Tail(prefix))

\* final path component (pathlib's name)
RECURSIVE PathName(_)
PathName(path) ==
  IF \E i \in DOMAIN path : path[i] = "/"
    THEN PathName(Tail(path))
    ELSE path

Closed(t) == (\E e \in t : startswith(e.path, DrawRoot \o Sep)) => DrawDir \in t
Trees == { t \in SUBSET Universe : Cardinality(t) <= MaxTree /\ Closed(t) }

\* ---------------------------------------------------------------- fnmatch
\* glob match on POSIX (normcase is the identity): "*" any run, "?" any one
\* character, anything else itself
RECURSIVE fnmatch(_, _)
fnmatch(name, pat) ==
  IF pat = <<>> THEN name = <<>>
  ELSE IF Head(pat) = "*"
    THEN fnmatch(name, Tail(pat)) \/ (name # <<>> /\ fnmatch(Tail(name), pat))
  ELSE IF name = <<>> THEN FALSE
  ELSE (Head(pat) = "?" \/ Head(pat) = Head(name)) /\ fnmatch(Tail(name), Tail(pat))

path_matches(path, patterns) ==
  \E i \in DOMAIN patterns : fnmatch(path, patterns[i])

\* ---------------------------------------------------------------- exec_command
None == [isNone |-> TRUE, text |-> <<>>]
Some(t) == [isNone |-> FALSE, text |-> t]

\* what a child process does: its exit status and the bytes it writes to stdout
Outputs == { <<>>, <<104, 105>>, <<195, 169>> }
Children == [rc : 0..MaxRc, out : Outputs]

\* bytes.decode("utf8") on one- and two-byte sequences; ok is FALSE where
\* Python raises UnicodeDecodeError
RECURSIVE decode(_)
decode(bytes) ==
  IF bytes = <<>> THEN [ok |-> TRUE, text |-> <<>>]
  ELSE IF Head(bytes) < 128
    THEN LET rest == decode(Tail(bytes))
         IN [ok |-> rest.ok, text |-> <<Head(bytes)>> \o rest.text]
  ELSE IF Head(bytes) \in 194..223 /\ Len(bytes) >= 2 /\ bytes[2] \in 128..191
    THEN LET rest == decode(Tail(Tail(bytes)))
         IN [ok |-> rest.ok,
             text |-> <<(Head(bytes) - 192) * 64 + (bytes[2] - 128)>> \o rest.text]
  ELSE [ok |-> FALSE, text |-> <<>>]

\* subprocess.Popen(cmnd, shell=True, stderr=stderr): stdout is not handed on,
\* so the child inherits the parent's standard output
Popen(stdout, stderr) == [stdout |-> "inherit", stderr |-> stderr]

\* proc.communicate(): a stream is read only if it is a pipe
communicate(proc, child) ==
  [out |-> IF proc.stdout = "PIPE" THEN Some(child.out) ELSE None]

\* variant: every failure exits with status 1
sys_exit_one(n) == IF n = 0 THEN 0 ELSE 1

\* sys.exit(n): the process's exit status is the low byte of n
sys_exit(n) == n % 256

\* result of exec_command: exits with a status, or returns ret
exec_command(child, stdout, stderr) ==
  LET proc == Popen(stdout, stderr)
      oe == communicate(proc, child)
  IN IF child.rc # 0
       THEN [exits |-> TRUE, status |-> sys_exit(child.rc), ret |-> None]
     ELSE IF ~oe.out.isNone
       THEN LET d == decode(oe.out.text)
            IN IF d.ok THEN [exits |-> FALSE, status |-> 0, ret |-> Some(d.text)]
                       ELSE [exits |-> TRUE, status |-> 1, ret |-> None]
     ELSE [exits |-> FALSE, status |-> 0, ret |-> None]

\* ---------------------------------------------------------------- state
VARIABLES
  pc,          \* the statement the process is at
  command,     \* "build_all" or "build_just"
  patGiven,    \* -p/--pattern is on the command line
  pattern,     \* its value (<<>> when absent or empty)
  simplify,    \* -s/--simplify_draw is on the command line
  fs,          \* the file system below the original working directory
  pwd,         \* os.getcwd()
  exitStatus,  \* the process's exit status, Running until it ends
  log,         \* functions entered and external commands run, in order
  lastRc,      \* exit status of the last external command, NoRc before any
  out,         \* what the last external command wrote to stdout
  ret,         \* what the last exec_command returned
  cloned       \* the doc tree as the source clone delivered it

vars == <<pc, command, patGiven, pattern, simplify, fs, pwd, exitStatus, log,
          lastRc, out, ret, cloned>>

Running == -1
NoRc == -1

Step(name, dir) == [kind |-> "step", name |-> name, dir |-> dir]
Cmd(name, dir) == [kind |-> "cmd", name |-> name, dir |-> dir]

\* a file system: the two local names, and what the clones hold
\*   docdoc : what is at c3org/doc/doc ("none", "link" -> c3src/doc, "other")
\*   script, bib : the doc folders ("src", "web") holding each relocated file
MkFs(wk, sk, wd, dd, sd, tr, sc, bi) ==
  [webKind |-> wk, srcKind |-> sk, webDoc |-> wd, docdoc |-> dd,
   srcDoc |-> sd, tree |-> tr, script |-> sc, bib |-> bi]

WebStates ==
  { <<"absent", FALSE, "none">>, <<"file", FALSE, "none">>,
    <<"dir", TRUE, "none">>, <<"dir", TRUE, "link">> }
SrcStates ==
  { <<"absent", FALSE, {}>>, <<"file", FALSE, {}>>, <<"dir", FALSE, {}>> }
    \cup { <<"dir", TRUE, t>> : t \in Trees }

\* the states a previous run (or none) may have left behind
InitFs ==
  { LET held == (IF w[3] = "link" THEN {"web"} ELSE {})
                  \cup (IF s[2] /\ w[3] # "link" THEN {"src"} ELSE {})
    IN MkFs(w[1], s[1], w[2], w[3], s[2], s[3], held, held)
    : w \in WebStates, s \in SrcStates }

Init ==
  /\ pc = "cli"
  /\ command \in {"build_all", "build_just"}
  /\ patGiven \in BOOLEAN
  /\ pattern \in CallerPatterns
  /\ simplify \in BOOLEAN
  /\ (command = "build_all") => (~patGiven /\ ~simplify)
  /\ ~patGiven => pattern = <<>>
  /\ fs \in InitFs
  /\ pwd = OrigDir
  /\ exitStatus = Running
  /\ log = <<>>
  /\ lastRc = NoRc
  /\ out = <<>>
  /\ ret = None
  /\ cloned = {}

\* ---------------------------------------------------------------- front end
\* click: a command with no_args_is_help=True and an empty argument list
\* prints its help and exits without calling the function; the status is 0
\* before click 8.2 and 2 from 8.2 on
HelpExitCodes == {0, 2}
\* variant: the command is declared without no_args_is_help
NoArgs_off == FALSE
NoArgs == ~patGiven /\ ~simplify

ShowHelp ==
  /\ pc = "cli"
  /\ command = "build_just"
  /\ NoArgs
  /\ pc' = "help"
  /\ exitStatus' \in HelpExitCodes
  /\ UNCHANGED <<command, patGiven, pattern, simplify, fs, pwd, log, lastRc,
                 out, ret, cloned>>

\* main(): click dispatches to build_all or build_just
Dispatch ==
  /\ pc = "cli"
  /\ ~(command = "build_just" /\ NoArgs)
  /\ pc' = "remove_old_repos"
  /\ UNCHANGED <<command, patGiven, pattern, simplify, fs, pwd, exitStatus,
                 log, lastRc, out, ret, cloned>>

\* ---------------------------------------------------------------- repository manager
exists(f, p) == IF p = "web" THEN f.webKind # "absent" ELSE f.srcKind # "absent"

\* shutil.rmtree(p): removes a directory with all it holds (a symbolic link in
\* it is removed, not followed); raises on anything that is not a directory
rmtree(f, p) ==
  IF p = "web"
    THEN IF f.webKind = "dir"
      THEN [raised |-> FALSE,
            fs |-> [f EXCEPT !.webKind = "absent", !.webDoc = FALSE,
                             !.docdoc = "none", !.script = @ \ {"web"},
                             !.bib = @ \ {"web"}]]
      ELSE [raised |-> TRUE, fs |-> f]
    ELSE IF f.srcKind = "dir"
      THEN [raised |-> FALSE,
            fs |-> [f EXCEPT !.srcKind = "absent", !.srcDoc = FALSE,
                             !.tree = {}, !.script = @ \ {"src"},
                             !.bib = @ \ {"src"}]]
      ELSE [raised |-> TRUE, fs |-> f]

\* variant: rmtree is called without the exists() test
remove_old_repos_unguarded(f) ==
  LET r1 == rmtree(f, "web")
  IN IF r1.raised THEN r1 ELSE rmtree(r1.fs, "src")

remove_old_repos(f) ==
  LET r1 == IF exists(f, "web") THEN rmtree(f, "web")
                                ELSE [raised |-> FALSE, fs |-> f]
  IN IF r1.raised THEN r1
     ELSE IF exists(r1.fs, "src") THEN rmtree(r1.fs, "src") ELSE r1

RemoveOldRepos ==
  /\ pc = "remove_old_repos"
  /\ LET r == remove_old_repos(fs)
     IN /\ fs' = r.fs
        /\ pc' = IF r.raised THEN "crashed" ELSE "bookmark_org_repo"
        /\ exitStatus' = IF r.raised THEN 1 ELSE exitStatus
  /\ log' = Append(log, Step("remove_old_repos", pwd))
  /\ UNCHANGED <<command, patGiven, pattern, simplify, pwd, lastRc, out, ret,
                 cloned>>

\* variant: the directory is restored only when the body does not raise
cwd_nofinally(oldpwd, path, raised) == IF raised THEN path ELSE oldpwd

\* the cwd context manager: the directory the process is in when control
\* leaves the with-block entered from oldpwd (the finally clause restores it
\* whether or not the body raised)
cwd(oldpwd, path, raised) == oldpwd

\* clone_repos, first statement: bookmark_org_repo()
BookmarkOrgRepo ==
  /\ pc = "bookmark_org_repo"
  /\ \E entered \in BOOLEAN, child \in Children :
       IF ~entered
         THEN \* os.chdir(WEB_REPO) raises: the canonical repository is missing
              /\ pc' = "crashed"
              /\ exitStatus' = 1
              /\ log' = Append(log, Step("clone_repos", pwd))
              /\ UNCHANGED <<pwd, lastRc, out, ret>>
         ELSE LET res == exec_command(child, "PIPE", "PIPE")
              IN /\ pwd' = cwd(pwd, WEB_REPO, res.exits)
                 /\ log' = log \o <<Step("clone_repos", pwd),
                                    Cmd("hg bookmark develop -f", WEB_REPO)>>
                 /\ lastRc' = child.rc
                 /\ out' = child.out
                 /\ ret' = res.ret
                 /\ pc' = IF res.exits THEN "exited" ELSE "clone_src"
                 /\ exitStatus' = IF res.exits THEN res.status ELSE exitStatus
  /\ UNCHANGED <<command, patGiven, pattern, simplify, fs, cloned>>

\* what a successful clone of the source repository may deliver
SrcClones ==
  { <<FALSE, {}, FALSE, FALSE>> }
    \cup { <<TRUE, t, s, b>> : t \in Trees, s \in BOOLEAN, b \in BOOLEAN }
\* what a successful clone of the site repository may deliver
WebClones == { <<FALSE, "none">>, <<TRUE, "none">>, <<TRUE, "other">> }

\* exec_command(f"hg clone {SRC_REPO} {SRC_DIR}")
CloneSrc ==
  /\ pc = "clone_src"
  /\ \E child \in Children, c \in SrcClones :
       LET res == exec_command(child, "PIPE", "PIPE")
       IN /\ log' = Append(log, Cmd("hg clone src", pwd))
          /\ lastRc' = child.rc
          /\ out' = child.out
          /\ ret' = res.ret
          /\ pc' = IF res.exits THEN "exited" ELSE "clone_web"
          /\ exitStatus' = IF res.exits THEN res.status ELSE exitStatus
          /\ fs' = IF res.exits THEN fs
                   ELSE [fs EXCEPT !.srcKind = "dir", !.srcDoc = c[1],
                                   !.tree = c[2],
                                   !.script = IF c[3] THEN {"src"} ELSE {},
                                   !.bib = IF c[4] THEN {"src"} ELSE {}]
          /\ cloned' = IF res.exits THEN cloned ELSE c[2]
  /\ UNCHANGED <<command, patGiven, pattern, simplify, pwd>>

\* exec_command(f"hg clone {WEB_REPO} {WEB_DIR}")
CloneWeb ==
  /\ pc = "clone_web"
  /\ \E child \in Children, c \in WebClones :
       LET res == exec_command(child, "PIPE", "PIPE")
       IN /\ log' = Append(log, Cmd("hg clone web", pwd))
          /\ lastRc' = child.rc
          /\ out' = child.out
          /\ ret' = res.ret
          /\ pc' = IF res.exits THEN "exited" ELSE "link_and_move"
          /\ exitStatus' = IF res.exits THEN res.status ELSE exitStatus
          /\ fs' = IF res.exits THEN fs
                   ELSE [fs EXCEPT !.webKind = "dir", !.webDoc = c[1],
                                   !.docdoc = c[2]]
  /\ UNCHANGED <<command, patGiven, pattern, simplify, pwd, cloned>>

\* dest_docs.symlink_to(src_docs): needs the parent c3org/doc and a free name
symlink_to(f) ==
  IF f.webDoc /\ f.docdoc = "none"
    THEN [raised |-> FALSE, fs |-> [f EXCEPT !.docdoc = "link"]]
    ELSE [raised |-> TRUE, fs |-> f]

\* variant: the file is copied, not moved
rename_copy(held) == held \cup {"web"}

\* Path.rename from c3src/doc to c3org/doc: the folders holding the file after
rename(held) == (held \ {"src"}) \cup {"web"}

\* variant: no assertion before the link is made
link_and_move_noassert(f) ==
  LET l == symlink_to(f)
  IN IF l.raised THEN l
     ELSE IF "src" \notin l.fs.script THEN [raised |-> TRUE, fs |-> l.fs]
     ELSE LET m == [l.fs EXCEPT !.script = (@ \ {"src"}) \cup {"web"}]
          IN IF "src" \notin m.bib THEN [raised |-> TRUE, fs |-> m]
             ELSE [raised |-> FALSE,
                   fs |-> [m EXCEPT !.bib = (@ \ {"src"}) \cup {"web"}]]

\* clone_repos from the assertion on
link_and_move(f) ==
  IF ~f.srcDoc THEN [raised |-> TRUE, fs |-> f]
  ELSE LET l == symlink_to(f)
       IN IF l.raised THEN l
          ELSE IF "src" \notin l.fs.script THEN [raised |-> TRUE, fs |-> l.fs]
          ELSE LET m == [l.fs EXCEPT !.script = rename(@)]
               IN IF "src" \notin m.bib THEN [raised |-> TRUE, fs |-> m]
                  ELSE [raised |-> FALSE, fs |-> [m EXCEPT !.bib = rename(@)]]

\* variant: the two prunings are tested in the other order
after_clone_swapped(cmd, simp, pat) ==
  IF cmd = "build_all" THEN "build_docs"
  ELSE IF pat # <<>> THEN "remove_docs"
  ELSE IF simp THEN "reduce_draw_examples"
  ELSE "build_docs"

\* the statement that follows clone_repos() in build_all and build_just
after_clone(cmd, simp, pat) ==
  IF cmd = "build_all" THEN "build_docs"
  ELSE IF simp THEN "reduce_draw_examples"
  ELSE IF pat # <<>> THEN "remove_docs"
  ELSE "build_docs"

\* the statement that follows the simplify_draw branch in build_just
after_reduce(pat) == IF pat # <<>> THEN "remove_docs" ELSE "build_docs"

LinkAndMove ==
  /\ pc = "link_and_move"
  /\ LET r == link_and_move(fs)
     IN /\ fs' = r.fs
        /\ pc' = IF r.raised THEN "crashed"
                 ELSE after_clone(command, simplify, pattern)
        /\ exitStatus' = IF r.raised THEN 1 ELSE exitStatus
  /\ UNCHANGED <<command, patGiven, pattern, simplify, pwd, log, lastRc, out,
                 ret, cloned>>

\* ---------------------------------------------------------------- file filter
P_index == <<"*","i","n","d","e","x",".","r","s","t">>
P_template == <<"*","t","e","m","p","l","a","t","e","*">>
P_draw == <<"*","d","r","a","w","_","e","x","a","*">>
P_gaps == <<"*","g","a","p","s","-","p","e","r","-","s","e","q","*">>
P_square == <<"*","-","s","q","u","a","r","e",".","p","y">>
P_readme == <<"*","R","E","A","D","M","E","*">>

\* what the process sees below c3org/doc/doc (a link to c3src/doc)
Visible(f) == IF f.docdoc = "link" /\ f.srcDoc THEN f.tree ELSE {}

\* variant: the glob ignores the name pattern
glob_any_name(root, tree, namePat) ==
  { e \in tree : startswith(e.path, root \o Sep) }

\* root.glob("**/" + namePat): every entry below root whose name matches
glob(root, tree, namePat) ==
  { e \in tree : startswith(e.path, root \o Sep)
                   /\ fnmatch(PathName(e.path), namePat) }

\* the keep-set of reduce_draw_examples
draw_patterns == <<P_gaps, P_square, P_readme>>

\* the entries reduce_draw_examples unlinks
draw_unlinked(tree) ==
  { e \in glob(DrawRoot, tree, <<"*">>) :
      ~(path_matches(e.path, draw_patterns) \/ e.dir) }

reduce_draw_examples(tree) == tree \ draw_unlinked(tree)

\* variant: the index pattern is missing from the keep-set
docs_patterns_noindex(pat) == <<pat, P_template, P_draw>>

\* the keep-set of remove_docs(pattern)
docs_patterns(pat) == <<pat, P_index, P_template, P_draw>>

\* the entries remove_docs(pattern) unlinks
docs_unlinked(pat, tree) ==
  { e \in glob(DocRoot, tree, <<"*", ".", "r", "s", "t">>) :
      ~(path_matches(e.path, docs_patterns(pat)) \/ e.dir) }

remove_docs(pat, tree) == tree \ docs_unlinked(pat, tree)

\* build_just: if simplify_draw: reduce_draw_examples()
ReduceDrawExamples ==
  /\ pc = "reduce_draw_examples"
  /\ fs' = [fs EXCEPT !.tree = reduce_draw_examples(Visible(fs))]
  /\ log' = Append(log, Step("reduce_draw_examples", pwd))
  /\ pc' = after_reduce(pattern)
  /\ UNCHANGED <<command, patGiven, pattern, simplify, pwd, exitStatus, lastRc,
                 out, ret, cloned>>

\* build_just: if pattern: remove_docs(pattern)
RemoveDocs ==
  /\ pc = "remove_docs"
  /\ fs' = [fs EXCEPT !.tree = remove_docs(pattern, Visible(fs))]
  /\ log' = Append(log, Step("remove_docs", pwd))
  /\ pc' = "build_docs"
  /\ UNCHANGED <<command, patGiven, pattern, simplify, pwd, exitStatus, lastRc,
                 out, ret, cloned>>

\* ---------------------------------------------------------------- doc builder
\* build_docs: os.chdir(WEB_DIR); exec_command("hg up develop")
HgUp ==
  /\ pc = "build_docs"
  /\ pwd' = WebCloneDir
  /\ \E child \in Children :
       LET res == exec_command(child, "PIPE", "PIPE")
       IN /\ log' = log \o <<Step("build_docs", pwd), Cmd("hg up develop", pwd')>>
          /\ lastRc' = child.rc
          /\ out' = child.out
          /\ ret' = res.ret
          /\ pc' = IF res.exits THEN "exited" ELSE "ls"
          /\ exitStatus' = IF res.exits THEN res.status ELSE exitStatus
  /\ UNCHANGED <<command, patGiven, pattern, simplify, fs, cloned>>

\* build_docs: exec_command("ls")
Ls ==
  /\ pc = "ls"
  /\ \E child \in Children :
       LET res == exec_command(child, "PIPE", "PIPE")
       IN /\ log' = Append(log, Cmd("ls", pwd))
          /\ lastRc' = child.rc
          /\ out' = child.out
          /\ ret' = res.ret
          /\ pc' = IF res.exits THEN "exited" ELSE "make"
          /\ exitStatus' = IF res.exits THEN res.status ELSE exitStatus
  /\ UNCHANGED <<command, patGiven, pattern, simplify, fs, pwd, cloned>>

\* build_docs: os.chdir("doc"); exec_command("make github"); then the command
\* function returns and click ends the process with status 0
MakeGithub ==
  /\ pc = "make"
  /\ pwd' = WebCloneDocDir
  /\ \E child \in Children :
       LET res == exec_command(child, "PIPE", "PIPE")
       IN /\ log' = Append(log, Cmd("make github", pwd'))
          /\ lastRc' = child.rc
          /\ out' = child.out
          /\ ret' = res.ret
          /\ pc' = IF res.exits THEN "exited" ELSE "done"
          /\ exitStatus' = IF res.exits THEN res.status ELSE 0
  /\ UNCHANGED <<command, patGiven, pattern, simplify, fs, cloned>>

\* ---------------------------------------------------------------- the program
Next ==
  \/ ShowHelp
  \/ Dispatch
  \/ RemoveOldRepos
  \/ BookmarkOrgRepo
  \/ CloneSrc
  \/ CloneWeb
  \/ LinkAndMove
  \/ ReduceDrawExamples
  \/ RemoveDocs
  \/ HgUp
  \/ Ls
  \/ MakeGithub

Spec == Init /\ [][Next]_vars

\* ---------------------------------------------------------------- calling remove_old_repos repeatedly
MaxCalls == 2

InitTwice ==
  /\ pc = "twice"
  /\ command = "build_all"
  /\ patGiven = FALSE
  /\ pattern = <<>>
  /\ simplify = FALSE
  /\ fs \in InitFs
  /\ pwd = OrigDir
  /\ exitStatus = Running
  /\ log = <<>>
  /\ lastRc = NoRc
  /\ out = <<>>
  /\ ret = None
  /\ cloned = {}

\* one more call of remove_old_repos(), right after the previous one
RemoveOldReposAgain ==
  /\ pc = "twice"
  /\ Len(log) < MaxCalls
  /\ LET r == remove_old_repos(fs)
     IN /\ fs' = r.fs
        /\ pc' = IF r.raised THEN "crashed" ELSE "twice"
        /\ exitStatus' = IF r.raised THEN 1 ELSE exitStatus
  /\ log' = Append(log, Step("remove_old_repos", pwd))
  /\ UNCHANGED <<command, patGiven, pattern, simplify, pwd, lastRc, out, ret,
                 cloned>>

SpecTwice == InitTwice /\ [][RemoveOldReposAgain]_vars

\* ---------------------------------------------------------------- properties
IsPrefix(s, t) == Len(s) <= Len(t) /\ \A i \in DOMAIN s : s[i] = t[i]
Names(l) == [i \in DOMAIN l |-> l[i].name]
Ran(name) == \E i \in DOMAIN log : log[i].name = name
Failed == lastRc # NoRc /\ lastRc # 0

\* C1: when the child of an external command exits with a nonzero status c,
\* the process ends with exit status c, exec_command returns nothing, and no
\* further statement runs.
C1_FailureTerminates ==
  [][ /\ (lastRc' # NoRc /\ lastRc' # 0)
          => (pc' = "exited" /\ exitStatus' = lastRc' /\ ret' = None
              /\ log'[Len(log')].kind = "cmd")
      /\ ~Failed ]_vars

C1_Witness == pc = "exited" /\ lastRc = 2 /\ exitStatus = 2 /\ Ran("hg clone web")

\* C2: a command that writes T to its standard output and exits 0 makes
\* exec_command, called with the default (capturing) stream modes, return T
\* decoded as text.
C2_ReturnsStdout ==
  (lastRc = 0) => (ret = Some(decode(out).text))

C5_RemoveIdempotent ==
  [][ (fs.webKind \in {"absent", "dir"} /\ fs.srcKind \in {"absent", "dir"})
        => /\ pc' = "twice"
           /\ exitStatus' = Running
           /\ fs'.webKind = "absent" /\ fs'.srcKind = "absent"
           /\ (Len(log) >= 1 => fs' = fs) ]_vars

C5_Witness ==
  /\ pc = "twice" /\ Len(log) = 2
  /\ fs.webKind = "absent" /\ fs.srcKind = "absent"

\* C6: the steps and the external commands of a run happen in the fixed
\* order, each at most once (build-just inserts the optional prunings before
\* the build), and after an external command has exited nonzero nothing more
\* is executed.
FullOrder ==
  <<"remove_old_repos", "clone_repos", "hg bookmark develop -f",
    "hg clone src", "hg clone web">>
  \o (IF command = "build_just" /\ simplify
        THEN <<"reduce_draw_examples">> ELSE <<>>)
  \o (IF command = "build_just" /\ patGiven /\ pattern # <<>>
        THEN <<"remove_docs">> ELSE <<>>)
  \o <<"build_docs", "hg up develop", "ls", "make github">>

C6_LinearOrder ==
  [][ /\ IsPrefix(Names(log'), FullOrder)
      /\ Len(log') >= Len(log)
      /\ Failed => log' = log ]_vars

C6_Witness ==
  /\ pc = "done" /\ command = "build_just" /\ simplify /\ pattern # <<>>
  /\ Len(log) = 11

C8_Layout ==
  [][ (pc = "link_and_move" /\ pc' # "crashed")
        => /\ fs'.webKind = "dir" /\ fs'.srcKind = "dir"
           /\ fs'.webDoc /\ fs'.srcDoc
           /\ fs'.docdoc = "link"
           /\ fs'.script = {"web"}
           /\ fs'.bib = {"web"} ]_vars

C8_Witness ==
  /\ pc = "build_docs" /\ Len(log) = 5
  /\ fs.docdoc = "link" /\ fs.script = {"web"} /\ fs.bib = {"web"}

\* C9: the link is created, the files are moved and the filters delete only
\* after both clone commands succeeded and with c3src/doc present; when it is
\* absent after cloning the run stops there with no link, no move, no
\* deletion and no build command.
C9_OnlyAfterClone ==
  [][ /\ (\/ (fs'.docdoc = "link" /\ fs.docdoc # "link")
          \/ "web" \in fs'.script \ fs.script
          \/ "web" \in fs'.bib \ fs.bib
          \/ (pc \in {"reduce_draw_examples", "remove_docs"}
                /\ fs'.tree # fs.tree))
          => (/\ Ran("hg clone src") /\ Ran("hg clone web") /\ lastRc = 0
              /\ fs.srcKind = "dir" /\ fs.webKind = "dir" /\ fs.srcDoc)
      /\ (pc = "link_and_move" /\ ~fs.srcDoc)
          => (pc' = "crashed" /\ fs' = fs /\ log' = log)
      /\ pc # "crashed" ]_vars

C9_Witness ==
  /\ pc = "crashed" /\ Ran("hg clone web") /\ lastRc = 0
  /\ ~fs.srcDoc /\ fs.webDoc /\ fs.docdoc = "none"

\* C10: the directory change of the bookmark step is undone when the step is
\* left, whether its command succeeded or failed: everything up to build_docs
\* runs from the original directory, and only build_docs leaves the process
\* elsewhere (in c3org/doc once it is through).
C10_CwdScoped ==
  /\ \A i \in DOMAIN log :
       log[i].name \notin {"hg bookmark develop -f", "hg up develop", "ls",
                           "make github"}
         => log[i].dir = OrigDir
  /\ ~Ran("build_docs") => pwd = OrigDir
  /\ pc = "done" => pwd = WebCloneDocDir

C10_Witness ==
  /\ pc = "exited" /\ Len(log) = 3 /\ lastRc # 0
  /\ log[3] = Cmd("hg bookmark develop -f", WEB_REPO)
  /\ pwd = OrigDir

====
